---- MODULE Spec2Model ----
(***************************************************************************)
(* raven-powerctl (tools/raven-powerctl/powerctl.c): a command-line tool   *)
(* that resolves an action name from argv, flushes the filesystems and     *)
(* calls the Linux reboot system call.                                     *)
(*                                                                         *)
(* A C string is modelled as the sequence of its characters (without the  *)
(* terminating NUL), each character a one-character TLA+ string.  The      *)
(* process is a state machine over the positions of main(): resolve        *)
(* (lines 33-54), the two sync() calls, the reboot system call, the report *)
(* (lines 56-65) and the exit.                                             *)
(***************************************************************************)
EXTENDS Integers, Sequences, FiniteSets, TLC

VARIABLES argv, pc, argv0, name, cmd, reboot_cmd, rc, errno,
          events, stdout, stderr, status

vars == <<argv, pc, argv0, name, cmd, reboot_cmd, rc, errno,
          events, stdout, stderr, status>>

----------------------------------------------------------------------------
(* Bounds of the explored inputs. *)

\* largest argc explored (argv[0], argv[1] and ignored further arguments)
MaxArgc == 3

\* largest number of directory components in front of argv[0]'s last one
MaxDirs == 2

----------------------------------------------------------------------------
(* Strings of the program and of the explored command lines. *)

S_reboot == <<"r", "e", "b", "o", "o", "t">>
S_poweroff == <<"p", "o", "w", "e", "r", "o", "f", "f">>
S_halt == <<"h", "a", "l", "t">>
S_h == <<"-", "h">>
S_help == <<"-", "-", "h", "e", "l", "p">>
S_default == <<"r", "a", "v", "e", "n", "-", "p", "o", "w", "e", "r", "c", "t", "l">>

\* near misses of the three action names and of the help flags
S_Reboot == <<"R", "e", "b", "o", "o", "t">>
S_reboot_sp == <<"r", "e", "b", "o", "o", "t", " ">>
S_halt2 == <<"h", "a", "l", "t", "2">>
S_hal == <<"h", "a", "l">>
S_empty == <<>>
S_bogus == <<"b", "o", "g", "u", "s">>
S_x == <<"-", "x">>
S_dash == <<"-">>
S_helpx == <<"-", "-", "h", "e", "l", "p", "x">>
S_sbin == <<"s", "b", "i", "n">>
S_slash == <<"/">>

\* last path components explored for argv[0]
Names == {S_reboot, S_poweroff, S_halt, S_h, S_help, S_default, S_Reboot,
          S_reboot_sp, S_halt2, S_hal, S_empty, S_bogus, S_x}

\* directory names explored in front of them
DirNames == {S_sbin, S_reboot}

RECURSIVE DirPrefixes(_)
DirPrefixes(n) ==
    IF n = 0 THEN {<<>>}
    ELSE LET shorter == DirPrefixes(n - 1)
         IN  shorter \cup {p \o d \o S_slash : p \in shorter, d \in DirNames}

\* argv[0]: relative or absolute, up to MaxDirs directories, then a name
Argv0Set == {root \o p \o n : root \in {<<>>, S_slash},
                              p \in DirPrefixes(MaxDirs), n \in Names}

\* argv[1]: the names, more flags, and a path
Argv1Set == Names \cup {S_dash, S_helpx, S_slash \o S_sbin \o S_slash \o S_reboot}

\* argv[2..]: ignored by the program
RestSet == {S_halt, S_h}

RECURSIVE ArgvOfLen(_)
ArgvOfLen(n) ==
    IF n = 0 THEN {<<>>}
    ELSE IF n = 1 THEN {<<a>> : a \in Argv0Set}
    ELSE IF n = 2 THEN {<<a, b>> : a \in Argv0Set, b \in Argv1Set}
    ELSE {Append(v, r) : v \in ArgvOfLen(n - 1), r \in RestSet}

ArgvSet == UNION {ArgvOfLen(n) : n \in 0..MaxArgc}

----------------------------------------------------------------------------
(* Constants of <linux/reboot.h> and <errno.h>, as the int values the      *)
(* program holds.                                                          *)

\* 0x01234567
LINUX_REBOOT_CMD_RESTART == 19088743
\* 0x4321FEDC
LINUX_REBOOT_CMD_POWER_OFF == 1126301404
\* 0xCDEF0123 stored in "int reboot_cmd": 0xCDEF0123 - 2^32
LINUX_REBOOT_CMD_HALT == -839974621
\* "int reboot_cmd = -1"
NO_CMD == -1

EPERM == 1
\* errno values a failing reboot system call is explored with:
\* EPERM, EACCES, EFAULT, EINVAL
FailureCodes == {EPERM, 13, 14, 22}

----------------------------------------------------------------------------
(* Library functions as the program uses them. *)

\* a comparison that stops at the end of b (strncmp(a, b, strlen(b)))
RECURSIVE strcmp_prefix(_, _)
strcmp_prefix(a, b) ==
    IF b = <<>> THEN 0
    ELSE IF a = <<>> THEN 1
    ELSE IF Head(a) # Head(b) THEN 1
    ELSE strcmp_prefix(Tail(a), Tail(b))

\* strcmp: 0 iff both strings have the same characters up to the NUL;
\* the program only tests the result against 0, the sign is not modelled
RECURSIVE strcmp(_, _)
strcmp(a, b) ==
    IF a = <<>> /\ b = <<>> THEN 0
    ELSE IF a = <<>> \/ b = <<>> THEN 1
    ELSE IF Head(a) # Head(b) THEN 1
    ELSE strcmp(Tail(a), Tail(b))

\* a search that returns the first occurrence (strchr)
strrchr_first(s, c) ==
    LET hits == {i \in 1..Len(s) : s[i] = c}
    IN  IF hits = {} THEN 0 ELSE CHOOSE i \in hits : \A j \in hits : i <= j

\* strrchr: index of the last occurrence of c in s, 0 for a null result
strrchr(s, c) ==
    LET hits == {i \in 1..Len(s) : s[i] = c}
    IN  IF hits = {} THEN 0 ELSE CHOOSE i \in hits : \A j \in hits : j <= i

base_name(path) ==
    LET slash == strrchr(path, "/")
    IN  IF slash # 0 THEN SubSeq(path, slash + 1, Len(path)) ELSE path

\* a do_reboot that drops the system call's result
do_reboot_ret_ignored(r) == 0

\* value returned by do_reboot for the system call's result
do_reboot_ret(r) == IF r = 0 THEN 0 ELSE -1

\* the two-line message of usage(), which names argv0
UsageMsg(a0) == <<"usage", a0>>

\* a usage() that ignores its stream and writes to standard output
usage_stdout(out, a0) ==
    stdout' = Append(stdout, <<"usage", a0>>) /\ UNCHANGED stderr

\* usage(out, argv0): one fprintf to the given stream
usage(out, a0) ==
    IF out = "stdout"
    THEN stdout' = Append(stdout, UsageMsg(a0)) /\ UNCHANGED stderr
    ELSE stderr' = Append(stderr, UsageMsg(a0)) /\ UNCHANGED stdout

----------------------------------------------------------------------------
(* The process. *)

argc == Len(argv)

Init ==
    /\ argv \in ArgvSet
    /\ pc = "resolve"
    /\ argv0 = <<>>
    /\ name = <<>>
    /\ cmd = <<>>
    /\ reboot_cmd = NO_CMD
    /\ rc = 0
    /\ errno = 0
    /\ events = <<>>
    /\ stdout = <<>>
    /\ stderr = <<>>
    /\ status = <<>>

\* the name main() matches: argv[1] unless it is absent or starts with '-'
ResolvedCmd(nm) ==
    IF argc >= 2 /\ (argv[2] = <<>> \/ argv[2][1] # "-") THEN argv[2] ELSE nm

\* the code main() selects for a name, NO_CMD when it selects none
SelectCmd(c) ==
    IF strcmp(c, S_reboot) = 0 THEN LINUX_REBOOT_CMD_RESTART
    ELSE IF strcmp(c, S_poweroff) = 0 THEN LINUX_REBOOT_CMD_POWER_OFF
    ELSE IF strcmp(c, S_halt) = 0 THEN LINUX_REBOOT_CMD_HALT
    ELSE NO_CMD

\* a main() whose usage branches do not return
Proceeds_fallthrough(c) == TRUE

\* TRUE when main() goes on to do_reboot for the name
Proceeds(c) == SelectCmd(c) # NO_CMD

\* main(), lines 33-54
Resolve ==
    /\ pc = "resolve"
    /\ LET a0 == IF argc > 0 THEN argv[1] ELSE S_default
           nm == base_name(a0)
           c  == ResolvedCmd(nm)
       IN  /\ argv0' = a0
           /\ name' = nm
           /\ cmd' = c
           /\ reboot_cmd' = SelectCmd(c)
           /\ IF Proceeds(c)
              THEN /\ pc' = "sync1"
                   /\ UNCHANGED <<stdout, stderr, status>>
              ELSE IF strcmp(c, S_h) = 0 \/ strcmp(c, S_help) = 0
              THEN /\ usage("stdout", a0)
                   /\ status' = <<0>>
                   /\ pc' = "done"
              ELSE /\ usage("stderr", a0)
                   /\ status' = <<2>>
                   /\ pc' = "done"
    /\ UNCHANGED <<argv, rc, errno, events>>

\* do_reboot(), line 16
Sync1 ==
    /\ pc = "sync1"
    /\ events' = Append(events, <<"sync">>)
    /\ pc' = "sync2"
    /\ UNCHANGED <<argv, argv0, name, cmd, reboot_cmd, rc, errno, stdout, stderr, status>>

\* a do_reboot with a single sync()
Sync2_skipped ==
    /\ pc = "sync2"
    /\ pc' = "syscall"
    /\ UNCHANGED <<argv, argv0, name, cmd, reboot_cmd, rc, errno, events, stdout, stderr, status>>

\* do_reboot(), line 17
Sync2 ==
    /\ pc = "sync2"
    /\ events' = Append(events, <<"sync">>)
    /\ pc' = "syscall"
    /\ UNCHANGED <<argv, argv0, name, cmd, reboot_cmd, rc, errno, stdout, stderr, status>>

\* do_reboot(), line 18: the call returns 0, or -1 with errno set
Syscall ==
    /\ pc = "syscall"
    /\ \/ /\ rc' = 0
          /\ UNCHANGED errno
          /\ events' = Append(events, <<"reboot", reboot_cmd, 0, 0>>)
       \/ \E e \in FailureCodes :
             /\ rc' = -1
             /\ errno' = e
             /\ events' = Append(events, <<"reboot", reboot_cmd, -1, e>>)
    /\ pc' = "report"
    /\ UNCHANGED <<argv, argv0, name, cmd, reboot_cmd, stdout, stderr, status>>

\* a report that tests the saved error against EACCES
Report_eacces ==
    /\ pc = "report"
    /\ IF do_reboot_ret(rc) = 0
       THEN /\ status' = <<0>>
            /\ UNCHANGED <<stdout, stderr>>
       ELSE LET saved == errno
                failed == <<"failed", name, saved>>
                hint == <<"hint", name>>
            IN  /\ stderr' = IF saved = 13
                             THEN Append(Append(stderr, failed), hint)
                             ELSE Append(stderr, failed)
                /\ status' = <<1>>
                /\ UNCHANGED stdout
    /\ pc' = "done"
    /\ UNCHANGED <<argv, argv0, name, cmd, reboot_cmd, rc, errno, events>>

\* a report that calls do_reboot again after a first failure
Report_retry ==
    /\ pc = "report"
    /\ IF do_reboot_ret(rc) = 0
       THEN /\ status' = <<0>>
            /\ pc' = "done"
            /\ UNCHANGED <<stdout, stderr>>
       ELSE IF Len(events) <= 3
       THEN /\ pc' = "sync1"
            /\ UNCHANGED <<stdout, stderr, status>>
       ELSE /\ stderr' = Append(stderr, <<"failed", name, errno>>)
            /\ status' = <<1>>
            /\ pc' = "done"
            /\ UNCHANGED stdout
    /\ UNCHANGED <<argv, argv0, name, cmd, reboot_cmd, rc, errno, events>>

\* do_reboot() lines 19-22 and main() lines 56-65
Report ==
    /\ pc = "report"
    /\ IF do_reboot_ret(rc) = 0
       THEN /\ status' = <<0>>
            /\ UNCHANGED <<stdout, stderr>>
       ELSE LET saved == errno
                failed == <<"failed", name, saved>>
                hint == <<"hint", name>>
            IN  /\ stderr' = IF saved = EPERM
                             THEN Append(Append(stderr, failed), hint)
                             ELSE Append(stderr, failed)
                /\ status' = <<1>>
                /\ UNCHANGED stdout
    /\ pc' = "done"
    /\ UNCHANGED <<argv, argv0, name, cmd, reboot_cmd, rc, errno, events>>

Next == Resolve \/ Sync1 \/ Sync2 \/ Syscall \/ Report

Spec == Init /\ [][Next]_vars

\* the process is scheduled until it exits
FairSpec == Spec /\ WF_vars(Next)

----------------------------------------------------------------------------
(* Vocabulary of the properties. *)

Resolved == pc # "resolve"
Exited == pc = "done"

ActionNames == {S_reboot, S_poweroff, S_halt}
HelpFlags == {S_h, S_help}
ActionCodes == {LINUX_REBOOT_CMD_RESTART, LINUX_REBOOT_CMD_POWER_OFF, LINUX_REBOOT_CMD_HALT}

\* outcome of the resolver, by the name it matched
HelpRun == Resolved /\ cmd \in HelpFlags
ValidRun == Resolved /\ cmd \in ActionNames
InvalidRun == Resolved /\ cmd \notin ActionNames \cup HelpFlags

\* positions of the flushes and of the power-transition requests in the run
SyncCalls == {i \in 1..Len(events) : events[i][1] = "sync"}
RebootCalls == {i \in 1..Len(events) : events[i][1] = "reboot"}
CallSucceeded == \E i \in RebootCalls : events[i][3] = 0
CallFailed == \E i \in RebootCalls : events[i][3] # 0

BeginsWithDash(s) == s # <<>> /\ s[1] = "-"
FirstArgPresent == argc >= 2
HintPrinted == \E i \in 1..Len(stderr) : stderr[i][1] = "hint"

\* n is what follows the last '/' of path (all of path when it has none)
IsBaseNameOf(n, path) ==
    \E k \in 0..Len(path) :
        /\ n = SubSeq(path, k + 1, Len(path))
        /\ \A i \in 1..Len(n) : n[i] # "/"
        /\ k = 0 \/ path[k] = "/"

CodeOfName(n) ==
    CASE n = S_reboot -> LINUX_REBOOT_CMD_RESTART
      [] n = S_poweroff -> LINUX_REBOOT_CMD_POWER_OFF
      [] n = S_halt -> LINUX_REBOOT_CMD_HALT
      [] OTHER -> NO_CMD

PcRank ==
    CASE pc = "resolve" -> 0
      [] pc = "sync1" -> 1
      [] pc = "sync2" -> 2
      [] pc = "syscall" -> 3
      [] pc = "report" -> 4
      [] pc = "done" -> 5

----------------------------------------------------------------------------
(* Properties. *)

\* C1: whatever argv[0] is, a first argument -h or --help gives the help
\* path: usage on standard output only, exit status 0, no flush and no
\* power-transition request.
C1_HelpFlagAlwaysHelps ==
    (FirstArgPresent /\ argv[2] \in HelpFlags) =>
        /\ events = <<>>
        /\ pc \in {"resolve", "done"}
        /\ Exited => /\ status = <<0>>
                     /\ stdout = <<UsageMsg(argv[1])>>
                     /\ stderr = <<>>

\* C2: whatever argv[0] is, a first argument that is neither an action name
\* nor -h/--help (a flag or any other string) gives the usage error: usage on
\* standard error, exit status 2, no power-transition request.
C2_BadFirstArgIsUsageError ==
    (FirstArgPresent /\ argv[2] \notin ActionNames \cup HelpFlags) =>
        /\ events = <<>>
        /\ pc \in {"resolve", "done"}
        /\ Exited => /\ status = <<2>>
                     /\ stderr = <<UsageMsg(argv[1])>>
                     /\ stdout = <<>>

\* C3: the resolved name selects RESTART exactly when it is "reboot",
\* POWER_OFF exactly when it is "poweroff", HALT exactly when it is "halt";
\* every power-transition request carries the code of the resolved name, and
\* any other name selects nothing and requests nothing.
C3_ExactNameSelectsCode ==
    Resolved =>
        /\ reboot_cmd = CodeOfName(cmd)
        /\ \A i \in RebootCalls : events[i][2] = CodeOfName(cmd)
        /\ cmd \notin ActionNames => (events = <<>> /\ Exited)
        /\ cmd \in ActionNames => reboot_cmd \in ActionCodes

C3_Witness ==
    /\ Exited
    /\ cmd = S_halt
    /\ \E i \in RebootCalls : events[i][2] = LINUX_REBOOT_CMD_HALT

\* C4: the resolved name is the first argument when there is one that does
\* not begin with '-'; otherwise it is what follows the last '/' of argv[0].
C4_ResolvedName ==
    (Resolved /\ argc >= 1) =>
        IF FirstArgPresent /\ ~BeginsWithDash(argv[2])
        THEN cmd = argv[2]
        ELSE IsBaseNameOf(cmd, argv[1])

C4_Witness ==
    /\ Resolved
    /\ argv = <<S_slash \o S_sbin \o S_slash \o S_reboot, S_x>>
    /\ cmd = S_reboot

\* C5: a run exits with 0, 1 or 2: 0 exactly for a help run or a successful
\* power-transition call, 2 exactly for an invalid or missing command, 1
\* exactly for a valid action whose power-transition call failed.
C5_ExitStatus ==
    Exited =>
        /\ status \in {<<0>>, <<1>>, <<2>>}
        /\ status = <<0>> <=> (HelpRun \/ CallSucceeded)
        /\ status = <<2>> <=> InvalidRun
        /\ status = <<1>> <=> (ValidRun /\ CallFailed)

C5_Witness ==
    /\ Exited
    /\ ValidRun
    /\ CallFailed
    /\ status = <<1>>

\* C6: after a failed power-transition call the diagnostic on standard error
\* carries the error code that call set, and the root hint is printed exactly
\* when that code is EPERM; no other run prints the hint.
C6_RootHint ==
    /\ HintPrinted => \E i \in RebootCalls : events[i][3] # 0 /\ events[i][4] = EPERM
    /\ Exited =>
          \A i \in RebootCalls :
              events[i][3] # 0 =>
                  /\ stderr[1] = <<"failed", name, events[i][4]>>
                  /\ HintPrinted <=> events[i][4] = EPERM

C6_Witness ==
    /\ Exited
    /\ HintPrinted
    /\ \E i \in RebootCalls : events[i][4] = EPERM

\* C7: the power-transition request is the third call of the run, after two
\* flushes, and nothing is flushed after it.
C7_FlushTwiceThenRequest ==
    /\ Len(events) <= 3
    /\ \A i \in RebootCalls : i = 3 /\ SyncCalls = {1, 2}
    /\ pc \in {"report", "done"} /\ ValidRun => RebootCalls = {3}

C7_Witness ==
    /\ pc = "report"
    /\ events[1] = <<"sync">>
    /\ events[2] = <<"sync">>
    /\ events[3][1] = "reboot"

\* C8: a successful run writes nothing; a help run writes the usage message
\* to standard output only; an invalid-command run writes the same message to
\* standard error only; a failed run writes to standard error only.
C8_OutputChannels ==
    Exited =>
        /\ CallSucceeded => (stdout = <<>> /\ stderr = <<>>)
        /\ HelpRun => (stdout = <<UsageMsg(argv0)>> /\ stderr = <<>>)
        /\ InvalidRun => (stdout = <<>> /\ stderr = <<UsageMsg(argv0)>>)
        /\ CallFailed => (stdout = <<>> /\ stderr # <<>>)

C8_Witness ==
    /\ Exited
    /\ InvalidRun
    /\ stderr = <<UsageMsg(argv0)>>
    /\ stdout = <<>>

\* C9: a run moves forward through resolve, act, report; it issues at most
\* one power-transition request, nothing follows a request, and the run
\* exits whether the request succeeds or fails.
C9_SingleAttemptThenExit ==
    /\ [][PcRank' > PcRank]_vars
    /\ [](Cardinality(RebootCalls) <= 1 /\ \A i \in RebootCalls : i = Len(events))
    /\ <>[](Exited /\ status # <<>>)

C9_Witness ==
    /\ Exited
    /\ CallFailed
    /\ Cardinality(RebootCalls) = 1

\* C10: the flush and the power-transition request happen only in runs that
\* resolved one of the three actions; help and invalid-command runs call
\* neither, and a request carries RESTART, POWER_OFF or HALT, never -1.
C10_OnlyValidActionsAct ==
    /\ (events # <<>> \/ pc \in {"sync1", "sync2", "syscall", "report"}) => ValidRun
    /\ (HelpRun \/ InvalidRun) => (events = <<>> /\ Exited)
    /\ \A i \in RebootCalls : events[i][2] \in ActionCodes /\ events[i][2] # NO_CMD

C10_Witness ==
    /\ Exited
    /\ InvalidRun
    /\ reboot_cmd = NO_CMD
    /\ events = <<>>

====
